---------------------------- MODULE Spec2Model ----------------------------
(***************************************************************************)
(* A model of the scene-stack game engine of dev-gm/pokemon:               *)
(*   src/src/stack.rs  Stack<T>                                            *)
(*   src/src/dict.rs   Dict / DictValue                                    *)
(*   src/src/game.rs   Engine::run, Engine::handle_scene_fn_outcome,       *)
(*                     Engine::handle_props, Scene, SceneFnOutcome         *)
(*                                                                         *)
(* Three specifications share the module:                                  *)
(*   Spec       the engine's run loop over a scene stack                   *)
(*   SpecStack  sequences of push / pop / replace on one Stack             *)
(*   SpecProps  Engine::handle_props applied to enumerated dictionaries    *)
(***************************************************************************)
EXTENDS Integers, Sequences, FiniteSets, TLC

VARIABLES
    stack,        \* Engine.stack: Stack<Scene>, bottom first
    globals,      \* Engine.globals: Dict
    handle_quit,  \* Engine.handle_quit: which HandleQuitFn the game supplied
    pc,           \* position of run() in its loop
    scene,        \* the `scene` binding of game.rs:101 (id of the scene it refers to)
    polled,       \* events poll_iter has yielded in the current frame
    result,       \* what run() returned: None while running, Some(dict) after
    nextId,       \* identity given to the next constructed Scene
    event,        \* history: the last event poll_iter yielded in the current batch
    trace,        \* history: the calls run() made in the current frame, in order
    res,          \* history: the last call of handle_scene_fn_outcome from run()
    quits,        \* history: invocations of handle_quit in this run
    st,           \* SpecStack: the Stack under test, its operation counts, last operation
    hp            \* SpecProps: one application of handle_props

vars == <<stack, globals, handle_quit, pc, scene, polled, result, nextId,
          event, trace, res, quits, st, hp>>

engineVars == <<stack, globals, handle_quit, pc, scene, polled, result, nextId,
                event, trace, res, quits>>

(***************************************************************************)
(* Bounds of the model.                                                    *)
(***************************************************************************)
MaxInitDepth == 1   \* scenes on the stack when run() starts
MaxEvents == 2      \* events one poll batch yields
MaxOps == 4         \* operations applied to the Stack under test
MaxReq == 2         \* entries of a `_REQUESTS` array

(***************************************************************************)
(* Option<T>                                                               *)
(***************************************************************************)
None == <<>>
Some(v) == <<v>>

(***************************************************************************)
(* dict.rs: DictValue is a tagged union, modelled as <<tag, payload>>;     *)
(* Dict = HashMap<String, DictValue> is a function from its key set.       *)
(***************************************************************************)
Null == <<"Null">>
String(s) == <<"String", s>>
U32(n) == <<"U32", n>>
Array(seq) == <<"Array", seq>>
DictV(d) == <<"Dict", d>>

EmptyDict == [k \in {} |-> Null]

DictGet(d, k) == IF k \in DOMAIN d THEN Some(d[k]) ELSE None

DictInsert(d, k, v) == [x \in (DOMAIN d) \cup {k} |-> IF x = k THEN v ELSE d[x]]

DictDelete(d, k) == [x \in (DOMAIN d) \ {k} |-> d[x]]

(***************************************************************************)
(* stack.rs: Stack<T> over Vec<T>; the last element is the top.            *)
(***************************************************************************)
new == <<>>

push(s, x) == Append(s, x)

\* a pop that takes the oldest element of the Vec
pop_First(s) ==
    IF s = <<>>
    THEN [stack |-> s, out |-> None]
    ELSE [stack |-> SubSeq(s, 2, Len(s)), out |-> Some(s[1])]

pop(s) ==
    IF s = <<>>
    THEN [stack |-> s, out |-> None]
    ELSE [stack |-> SubSeq(s, 1, Len(s) - 1), out |-> Some(s[Len(s)])]

\* a replace that forgets to pop
replace_NoPop(s, x) == [stack |-> push(s, x), out |-> None]

\* a replace that pushes before it pops
replace_PushFirst(s, x) == pop(push(s, x))

replace(s, x) ==
    LET p == pop(s)
    IN  [stack |-> push(p.stack, x), out |-> p.out]

peek(s) == IF s = <<>> THEN None ELSE Some(s[Len(s)])

\* a peek_mut that hands out the first element of the Vec
peek_mut_First(s) == IF s = <<>> THEN None ELSE Some(s[1])

peek_mut(s) == IF s = <<>> THEN None ELSE Some(s[Len(s)])

empty(s) == Len(s) = 0

len(s) == Len(s)

(***************************************************************************)
(* game.rs:152-165  Engine::handle_props.  The loop over the `_REQUESTS`   *)
(* array is folded left to right, as the code iterates it.                 *)
(***************************************************************************)
RECURSIVE CollectRequests(_, _, _, _)
CollectRequests(g, requests, i, acc) ==
    IF i > Len(requests)
    THEN acc
    ELSE LET raw_request == requests[i]
         IN  IF raw_request[1] = "String" /\ DictGet(g, raw_request[2]) # None
             THEN CollectRequests(g, requests, i + 1,
                                  DictInsert(acc, raw_request[2], g[raw_request[2]]))
             ELSE CollectRequests(g, requests, i + 1, acc)

HasRequests(props) ==
    /\ DictGet(props, "_REQUESTS") # None
    /\ props["_REQUESTS"][1] = "Array"

\* a handle_props that sets `globals` only inside the branch that found a
\* `_REQUESTS` array
handle_props_OnlyWhenRequested(g, props) ==
    IF HasRequests(props)
    THEN DictInsert(DictDelete(props, "_REQUESTS"), "globals",
                    DictV(CollectRequests(g, props["_REQUESTS"][2], 1, EmptyDict)))
    ELSE props

\* a handle_props that builds its result from an empty dictionary
handle_props_DropsOthers(g, props) ==
    LET requested == IF DictGet(props, "_REQUESTS") # None /\ props["_REQUESTS"][1] = "Array"
                     THEN CollectRequests(g, props["_REQUESTS"][2], 1, EmptyDict)
                     ELSE EmptyDict
    IN  DictInsert(EmptyDict, "globals", DictV(requested))

\* a handle_props that passes the props on untouched
handle_props_Identity(g, props) == props

\* a handle_props that hands every engine global over and keeps `_REQUESTS`
handle_props_AllGlobals(g, props) == DictInsert(props, "globals", DictV(g))

handle_props(g, props) ==
    LET requested == IF HasRequests(props)
                     THEN CollectRequests(g, props["_REQUESTS"][2], 1, EmptyDict)
                     ELSE EmptyDict
        kept == IF HasRequests(props) THEN DictDelete(props, "_REQUESTS") ELSE props
    IN  DictInsert(kept, "globals", DictV(requested))

(***************************************************************************)
(* SpecStack: push, pop, replace and peek applied to a Stack that starts    *)
(* empty.                                                                  *)
(* st.pushes, st.pops, ... count the operations applied so far; st.last    *)
(* records the last operation with the stack it was applied to and what it *)
(* returned.                                                               *)
(***************************************************************************)
Elems == {"x", "y"}

NoOp == [op |-> "none", arg |-> "x", before |-> <<>>, out |-> None]

StackInit ==
    st = [stack |-> new, pushes |-> 0, pops |-> 0, popsSome |-> 0,
          replaces |-> 0, replacesEmpty |-> 0, last |-> NoOp]

OpCount == st.pushes + st.pops + st.replaces

StackPush(x) ==
    /\ OpCount < MaxOps
    /\ UNCHANGED <<engineVars, hp>>
    /\ st' = [st EXCEPT !.stack = push(st.stack, x),
                        !.pushes = @ + 1,
                        !.last = [op |-> "push", arg |-> x, before |-> st.stack,
                                  out |-> None]]

StackPop ==
    /\ OpCount < MaxOps
    /\ UNCHANGED <<engineVars, hp>>
    /\ LET r == pop(st.stack)
       IN  st' = [st EXCEPT !.stack = r.stack,
                            !.pops = @ + 1,
                            !.popsSome = IF r.out # None THEN @ + 1 ELSE @,
                            !.last = [op |-> "pop", arg |-> "x", before |-> st.stack,
                                      out |-> r.out]]

StackReplace(x) ==
    /\ OpCount < MaxOps
    /\ UNCHANGED <<engineVars, hp>>
    /\ LET r == replace(st.stack, x)
       IN  st' = [st EXCEPT !.stack = r.stack,
                            !.replaces = @ + 1,
                            !.replacesEmpty = IF empty(st.stack) THEN @ + 1 ELSE @,
                            !.last = [op |-> "replace", arg |-> x, before |-> st.stack,
                                      out |-> r.out]]

\* stack.rs:24-26: peek takes &self, so the Vec is the one it was given
StackPeek ==
    /\ UNCHANGED <<engineVars, hp>>
    /\ st' = [st EXCEPT !.last = [op |-> "peek", arg |-> "x", before |-> st.stack,
                                  out |-> peek(st.stack)]]

(***************************************************************************)
(* SpecProps: handle_props applied once to an enumerated props dictionary  *)
(* and an enumerated engine globals dictionary.                            *)
(***************************************************************************)
AllGlobals == [k \in {"a", "b", "c"} |-> U32(CASE k = "a" -> 1 [] k = "b" -> 2 [] k = "c" -> 3)]

Restrict(d, keys) == [k \in (DOMAIN d) \cap keys |-> d[k]]

GlobalsInputs == {Restrict(AllGlobals, ks) : ks \in SUBSET {"a", "b", "c"}}

ReqElems == {String("a"), String("b"), String("c"), String("z"), U32(7)}

SeqsUpTo(S, n) == UNION {[1..m -> S] : m \in 0..n}

RequestsInputs ==
    {None, Some(U32(1))} \cup {Some(Array(q)) : q \in SeqsUpTo(ReqElems, MaxReq)}

BaseProps ==
    {EmptyDict,
     [k \in {"score"} |-> U32(10)],
     [k \in {"globals"} |-> String("mine")],
     [k \in {"score", "globals"} |-> IF k = "score" THEN U32(10) ELSE DictV(AllGlobals)]}

PropsInputs ==
    {IF r = None THEN b ELSE DictInsert(b, "_REQUESTS", r[1]) :
        b \in BaseProps, r \in RequestsInputs}

PropsInit ==
    /\ hp \in [globals : GlobalsInputs, props : PropsInputs, out : {EmptyDict},
               done : {FALSE}]

HandleProps ==
    /\ ~hp.done
    /\ UNCHANGED <<engineVars, st>>
    /\ hp' = [hp EXCEPT !.out = handle_props(hp.globals, hp.props), !.done = TRUE]

(***************************************************************************)
(* game.rs:195-251  Scene, its callbacks and SceneFnOutcome.               *)
(*                                                                         *)
(* A Scene is [id, kind, state]: `kind` names the constructor that built   *)
(* it and so fixes the function pointers it carries (event_callbacks,      *)
(* on_child_quit); `state` is its private Dict, one of two values; `id`    *)
(* tells two scenes of one kind apart.  Event and tick callbacks are game  *)
(* code: what they return and what they write to the scene's state is any  *)
(* value of Outcomes and StateVals.                                        *)
(***************************************************************************)
EventTypes == {"KeyDown", "KeyUp"}

Constructors == {"makeA", "makeB", "makeC"}

StateVals == {"s0", "s1"}

Continue == [kind |-> "Continue", create_scene |-> "none", props |-> EmptyDict]

CreateChild(c, p) == [kind |-> "CreateChild", create_scene |-> c, props |-> p]

Replace(c, p) == [kind |-> "Replace", create_scene |-> c, props |-> p]

Quit(p) == [kind |-> "Quit", create_scene |-> "none", props |-> p]

\* the props dictionaries scene callbacks hand to the engine
OutProps ==
    {[k \in {"score"} |-> U32(10)],
     [k \in {"_REQUESTS"} |-> Array(<<String("a"), String("z")>>)],
     [k \in {"_REQUESTS"} |-> U32(1)]}

OutcomesWith(P) ==
    {Continue}
    \cup {CreateChild(c, p) : c \in Constructors, p \in P}
    \cup {Replace(c, p) : c \in Constructors, p \in P}
    \cup {Quit(p) : p \in P}

\* what an event callback may return
Outcomes == OutcomesWith(OutProps)

\* what on_tick may return
TickOutcomes == {Continue, CreateChild("makeB", EmptyDict), Replace("makeB", EmptyDict),
                 Quit(EmptyDict)}

\* fn(props: Dict) -> Scene, game.rs:243
create_scene(c, props, id) == [id |-> id, kind |-> c, state |-> "s0"]

\* Scene.event_callbacks: the event types the scene registered a callback for
event_callbacks(sc) ==
    CASE sc.kind = "makeA" -> {"KeyDown", "KeyUp"}
      [] sc.kind = "makeB" -> {"KeyDown"}
      [] sc.kind = "makeC" -> {}

\* Scene.on_child_quit, game.rs:231
on_child_quit(sc, props) ==
    CASE sc.kind = "makeA" -> Continue
      [] sc.kind = "makeB" -> Quit(props)
      [] sc.kind = "makeC" -> CreateChild("makeA", props)

\* HandleQuitFn, game.rs:170: the handler the game supplied
Handlers == {"verbatim", "fixed"}

FixedResult == [k \in {"done"} |-> U32(1)]

CallHandleQuit(h, props) == IF h = "verbatim" THEN props ELSE FixedResult

(***************************************************************************)
(* Calls the engine makes, as recorded in the histories.                   *)
(***************************************************************************)
NoOutcome == [kind |-> "none", create_scene |-> "none", props |-> EmptyDict]

Call(op, target, top, props, out) ==
    [op |-> op, target |-> target, top |-> top, props |-> props, out |-> out]

TopId(s) == IF s = <<>> THEN 0 ELSE s[Len(s)].id

Ids(s) == {s[i].id : i \in 1..Len(s)}

IndexOf(s, id) == CHOOSE i \in 1..Len(s) : s[i].id = id

(***************************************************************************)
(* game.rs:124-146  Engine::handle_scene_fn_outcome.  `e` is the engine    *)
(* the call works on: [stack, globals, handle_quit, nextId], with `ret`    *)
(* the value returned (None = continue, Some(props) = exit with props),    *)
(* `log` the calls made and `depth` the nested calls of the function.      *)
(***************************************************************************)
RECURSIVE handle_scene_fn_outcome(_, _)

\* a CreateChild that takes the place of the top scene
CreateChildOutcome_Replace(e, o) ==
    LET props == handle_props(e.globals, o.props)
        child == create_scene(o.create_scene, props, e.nextId)
    IN  [e EXCEPT !.stack = replace(e.stack, child).stack,
                  !.nextId = @ + 1,
                  !.log = Append(@, Call("create_scene", child.id, TopId(e.stack),
                                         props, NoOutcome))]

\* game.rs:126-129
CreateChildOutcome(e, o) ==
    LET props == handle_props(e.globals, o.props)
        child == create_scene(o.create_scene, props, e.nextId)
    IN  [e EXCEPT !.stack = push(e.stack, child),
                  !.nextId = @ + 1,
                  !.log = Append(@, Call("create_scene", child.id, TopId(e.stack),
                                         props, NoOutcome))]

\* a Replace that pops the top scene and forgets to push the new one
ReplaceOutcome_PopOnly(e, o) ==
    LET props == handle_props(e.globals, o.props)
        child == create_scene(o.create_scene, props, e.nextId)
    IN  [e EXCEPT !.stack = pop(e.stack).stack,
                  !.nextId = @ + 1,
                  !.log = Append(@, Call("create_scene", child.id, TopId(e.stack),
                                         props, NoOutcome))]

\* game.rs:130-133
ReplaceOutcome(e, o) ==
    LET props == handle_props(e.globals, o.props)
        child == create_scene(o.create_scene, props, e.nextId)
    IN  [e EXCEPT !.stack = replace(e.stack, child).stack,
                  !.nextId = @ + 1,
                  !.log = Append(@, Call("create_scene", child.id, TopId(e.stack),
                                         props, NoOutcome))]

\* a Quit that delivers the props to the parent and drops the outcome it returns
QuitOutcome_NoRecurse(e, o) ==
    LET popped == pop(e.stack)
        props == handle_props(e.globals, o.props)
        parent == peek_mut(popped.stack)
    IN  IF parent # None
        THEN [e EXCEPT !.stack = popped.stack,
                       !.log = @ \o <<Call("pop", TopId(e.stack), TopId(e.stack),
                                           EmptyDict, NoOutcome),
                                      Call("on_child_quit", parent[1].id,
                                           TopId(popped.stack), props,
                                           on_child_quit(parent[1], props))>>]
        ELSE [e EXCEPT !.stack = popped.stack,
                       !.ret = Some(CallHandleQuit(e.handle_quit, props)),
                       !.log = @ \o <<Call("pop", TopId(e.stack), TopId(e.stack),
                                           EmptyDict, NoOutcome),
                                      Call("handle_quit", 0, 0, props, NoOutcome)>>]

\* a Quit that calls the quit handler without looking for a parent
QuitOutcome_NoParent(e, o) ==
    LET popped == pop(e.stack)
        props == handle_props(e.globals, o.props)
    IN  [e EXCEPT !.stack = popped.stack,
                  !.ret = Some(CallHandleQuit(e.handle_quit, props)),
                  !.log = @ \o <<Call("pop", TopId(e.stack), TopId(e.stack),
                                      EmptyDict, NoOutcome),
                                 Call("handle_quit", 0, 0, props, NoOutcome)>>]

\* a Quit that, with no parent left, returns the props without calling the handler
QuitOutcome_NoHandler(e, o) ==
    LET popped == pop(e.stack)
        e1 == [e EXCEPT !.stack = popped.stack,
                        !.log = Append(@, Call("pop", TopId(e.stack), TopId(e.stack),
                                               EmptyDict, NoOutcome))]
        props == handle_props(e.globals, o.props)
        parent == peek_mut(e1.stack)
    IN  IF parent # None
        THEN LET out == on_child_quit(parent[1], props)
             IN  handle_scene_fn_outcome(
                     [e1 EXCEPT !.depth = @ + 1,
                                !.log = Append(@, Call("on_child_quit", parent[1].id,
                                                       TopId(e1.stack), props, out))],
                     out)
        ELSE [e1 EXCEPT !.ret = Some(props)]

\* a Quit that, with no parent left, calls the handler and lets run() go on
QuitOutcome_NoExit(e, o) ==
    LET popped == pop(e.stack)
        e1 == [e EXCEPT !.stack = popped.stack,
                        !.log = Append(@, Call("pop", TopId(e.stack), TopId(e.stack),
                                               EmptyDict, NoOutcome))]
        props == handle_props(e.globals, o.props)
        parent == peek_mut(e1.stack)
    IN  IF parent # None
        THEN LET out == on_child_quit(parent[1], props)
             IN  handle_scene_fn_outcome(
                     [e1 EXCEPT !.depth = @ + 1,
                                !.log = Append(@, Call("on_child_quit", parent[1].id,
                                                       TopId(e1.stack), props, out))],
                     out)
        ELSE [e1 EXCEPT !.log = Append(@, Call("handle_quit", 0, 0, props, NoOutcome))]

\* a Quit that looks for the parent before it pops, and so finds the quitting scene
QuitOutcome_PeekBeforePop(e, o) ==
    LET parent == peek_mut(e.stack)
        popped == pop(e.stack)
        e1 == [e EXCEPT !.stack = popped.stack,
                        !.log = IF popped.out = None THEN @
                                ELSE Append(@, Call("pop", popped.out[1].id, TopId(e.stack),
                                                    EmptyDict, NoOutcome))]
        props == handle_props(e.globals, o.props)
    IN  IF parent # None
        THEN LET out == on_child_quit(parent[1], props)
             IN  handle_scene_fn_outcome(
                     [e1 EXCEPT !.depth = @ + 1,
                                !.log = Append(@, Call("on_child_quit", parent[1].id,
                                                       TopId(e1.stack), props, out))],
                     out)
        ELSE [e1 EXCEPT !.ret = Some(CallHandleQuit(e.handle_quit, props)),
                        !.log = Append(@, Call("handle_quit", 0, 0, props, NoOutcome))]

\* game.rs:134-142
QuitOutcome(e, o) ==
    LET popped == pop(e.stack)
        e1 == [e EXCEPT !.stack = popped.stack,
                        !.log = IF popped.out = None THEN @
                                ELSE Append(@, Call("pop", popped.out[1].id, TopId(e.stack),
                                                    EmptyDict, NoOutcome))]
        props == handle_props(e.globals, o.props)
        parent == peek_mut(e1.stack)
    IN  IF parent # None
        THEN LET out == on_child_quit(parent[1], props)
             IN  handle_scene_fn_outcome(
                     [e1 EXCEPT !.depth = @ + 1,
                                !.log = Append(@, Call("on_child_quit", parent[1].id,
                                                       TopId(e1.stack), props, out))],
                     out)
        ELSE [e1 EXCEPT !.ret = Some(CallHandleQuit(e.handle_quit, props)),
                        !.log = Append(@, Call("handle_quit", 0, 0, props, NoOutcome))]

handle_scene_fn_outcome(e, outcome) ==
    CASE outcome.kind = "CreateChild" -> CreateChildOutcome(e, outcome)
      [] outcome.kind = "Replace" -> ReplaceOutcome(e, outcome)
      [] outcome.kind = "Quit" -> QuitOutcome(e, outcome)
      [] OTHER -> e

\* the engine as a call from run() finds it
Engine == [stack |-> stack, globals |-> globals, handle_quit |-> handle_quit,
           nextId |-> nextId, ret |-> None, log |-> <<>>, depth |-> 1]

NoRes == [outcome |-> NoOutcome, before |-> <<>>, after |-> <<>>, ret |-> None,
          log |-> <<>>, depth |-> 0]

CountOp(log, op) == Cardinality({i \in 1..Len(log) : log[i].op = op})

(***************************************************************************)
(* game.rs:95-119  Engine::run.  pc is the position in the loop:           *)
(*   "render"  line 98      "peek"  line 101     "poll"  line 102          *)
(*   "sleep"   line 112     "tick"  line 113     "done"  run() returned    *)
(*                                                                         *)
(* Engine::new leaves the stack empty and the crate has no public way to   *)
(* fill it; the runs studied start from any stack of at most MaxInitDepth  *)
(* scenes, the empty one included.                                         *)
(***************************************************************************)
\* an event as poll_iter yields it, with whether line 103 found a callback for it
NoEvent == [type |-> "none", found |-> FALSE]

StacksOfDepth(n) ==
    {[i \in 1..n |-> create_scene(kinds[i], EmptyDict, i)] :
        kinds \in [1..n -> Constructors]}

InitStacks == UNION {StacksOfDepth(n) : n \in 0..MaxInitDepth}

\* scenes ever constructed in one run, the initial ones included
MaxScenes == MaxInitDepth + 2

EngineGlobals == {AllGlobals}

EngineInit ==
    /\ stack \in InitStacks
    /\ globals \in EngineGlobals
    /\ handle_quit \in Handlers
    /\ pc = "render"
    /\ scene = 0
    /\ polled = 0
    /\ result = None
    /\ nextId = Len(stack) + 1
    /\ event = NoEvent
    /\ trace = <<>>
    /\ res = NoRes
    /\ quits = 0

\* the engine of a specification that does not run it
EngineIdle ==
    /\ stack = new
    /\ globals = EmptyDict
    /\ handle_quit = "verbatim"
    /\ pc = "idle"
    /\ scene = 0
    /\ polled = 0
    /\ result = None
    /\ nextId = 1
    /\ event = NoEvent
    /\ trace = <<>>
    /\ res = NoRes
    /\ quits = 0

StackIdle == st = [stack |-> new, pushes |-> 0, pops |-> 0, popsSome |-> 0,
                   replaces |-> 0, replacesEmpty |-> 0, last |-> NoOp]

PropsIdle == hp = [globals |-> EmptyDict, props |-> EmptyDict, out |-> EmptyDict,
                   done |-> FALSE]

\* game.rs:98-100: a new frame starts; the top scene, if any, is rendered
Render ==
    /\ pc = "render"
    /\ trace' = IF peek(stack) # None
                THEN <<Call("render", peek(stack)[1].id, TopId(stack), EmptyDict,
                            NoOutcome)>>
                ELSE <<>>
    /\ pc' = "peek"
    /\ UNCHANGED <<stack, globals, handle_quit, scene, polled, result, nextId, event,
                   res, quits, st, hp>>

\* game.rs:101 and 109-111: `scene` is bound to the top, or run() returns
BeginDispatch ==
    /\ pc = "peek"
    /\ IF peek_mut(stack) # None
       THEN /\ scene' = peek_mut(stack)[1].id
            /\ pc' = "poll"
            /\ UNCHANGED result
       ELSE /\ result' = Some(EmptyDict)
            /\ pc' = "done"
            /\ UNCHANGED scene
    /\ UNCHANGED <<stack, globals, handle_quit, polled, nextId, event, trace, res, quits,
                   st, hp>>

\* the scene the binding `scene` refers to is still on the stack
Live == scene \in Ids(stack)

\* game.rs:103: whether `scene` has a callback for the event type.  `scene` is
\* bound once per batch (line 101); when an earlier event of the batch popped
\* or replaced that scene the binding dangles and the lookup may yield either.
CallbackFound(t) ==
    IF Live
    THEN {t \in event_callbacks(stack[IndexOf(stack, scene)])}
    ELSE BOOLEAN

\* game.rs:102-108: poll_iter yields an event of type t
PollEvent(t) ==
    /\ pc = "poll"
    /\ polled < MaxEvents
    /\ polled' = polled + 1
    /\ \E found \in CallbackFound(t) :
        /\ event' = [type |-> t, found |-> found]
        /\ IF ~found
           THEN UNCHANGED <<stack, globals, handle_quit, pc, scene, result, nextId,
                            trace, res, quits>>
           ELSE \E o \in Outcomes, sv \in StateVals :
                   LET called == IF Live
                                 THEN [stack EXCEPT ![IndexOf(stack, scene)].state = sv]
                                 ELSE stack
                   IN  \E e \in {handle_scene_fn_outcome([Engine EXCEPT !.stack = called], o)} :
                       /\ e.nextId <= MaxScenes + 1
                       /\ stack' = e.stack
                       /\ nextId' = e.nextId
                       /\ trace' = Append(trace, Call("event", scene, TopId(stack),
                                                      EmptyDict, NoOutcome))
                       /\ res' = [outcome |-> o, before |-> called, after |-> e.stack,
                                  ret |-> e.ret, log |-> e.log, depth |-> e.depth]
                       /\ quits' = quits + CountOp(e.log, "handle_quit")
                       /\ IF e.ret # None
                          THEN result' = e.ret /\ pc' = "done"
                          ELSE UNCHANGED <<result, pc>>
                       /\ UNCHANGED <<globals, handle_quit, scene>>
    /\ UNCHANGED <<st, hp>>

\* game.rs:102 and 108-109: poll_iter is exhausted; the iterator and the binding
\* `scene` go out of scope
EndPoll ==
    /\ pc = "poll"
    /\ pc' = "sleep"
    /\ scene' = 0
    /\ polled' = 0
    /\ event' = NoEvent
    /\ res' = NoRes
    /\ UNCHANGED <<stack, globals, handle_quit, result, nextId, trace, quits, st, hp>>

\* game.rs:112
Sleep ==
    /\ pc = "sleep"
    /\ trace' = Append(trace, Call("sleep", 0, 0, EmptyDict, NoOutcome))
    /\ pc' = "tick"
    /\ UNCHANGED <<stack, globals, handle_quit, scene, polled, result, nextId, event,
                   res, quits, st, hp>>

\* game.rs:113-117: on_tick of the top scene is called and what it returns is
\* dropped (line 114 is an expression statement); or run() returns
Tick ==
    /\ pc = "tick"
    /\ IF peek_mut(stack) # None
       THEN \E o \in TickOutcomes, sv \in StateVals :
                LET target == peek_mut(stack)[1]
                    i == IndexOf(stack, target.id)
                IN  /\ stack' = [stack EXCEPT ![i].state = sv]
                    /\ trace' = Append(trace, Call("tick", target.id, TopId(stack),
                                                   EmptyDict, o))
                    /\ pc' = "render"
                    /\ UNCHANGED result
       ELSE /\ result' = Some(EmptyDict)
            /\ pc' = "done"
            /\ UNCHANGED <<stack, trace>>
    /\ UNCHANGED <<globals, handle_quit, scene, polled, nextId, event, res, quits,
                   st, hp>>

Init == EngineInit /\ StackIdle /\ PropsIdle

Next ==
    \/ Render
    \/ BeginDispatch
    \/ \E t \in EventTypes : PollEvent(t)
    \/ EndPoll
    \/ Sleep
    \/ Tick

Spec == Init /\ [][Next]_vars

InitStack == EngineIdle /\ StackInit /\ PropsIdle

NextStack ==
    \/ \E x \in Elems : StackPush(x)
    \/ StackPop
    \/ \E x \in Elems : StackReplace(x)
    \/ StackPeek

SpecStack == InitStack /\ [][NextStack]_vars

InitProps == EngineIdle /\ StackIdle /\ PropsInit

NextProps == HandleProps

SpecProps == InitProps /\ [][NextProps]_vars

(***************************************************************************)
(*                              Properties                                 *)
(***************************************************************************)
Last(s) == s[Len(s)]

\* the scene's on_child_quit immediately returns Quit
ReturnsQuit(sc) == on_child_quit(sc, EmptyDict).kind = "Quit"

\* the last outcome run() resolved was a Quit, resolved on a non-empty stack
QuitAtTop == res.outcome.kind = "Quit" /\ Len(res.before) >= 1

QuitCascade == QuitAtTop /\ \A i \in 1..Len(res.before) : ReturnsQuit(res.before[i])

\* C1: on a stack of depth N >= 1 whose scenes' on_child_quit all return Quit,
\* resolving one Quit outcome empties the stack with exactly N pops and invokes
\* the quit handler exactly once.
C1_QuitCascade ==
    QuitCascade =>
        /\ res.after = <<>>
        /\ CountOp(res.log, "pop") = Len(res.before)
        /\ CountOp(res.log, "handle_quit") = 1
        /\ res.ret # None

C1_Witness ==
    /\ QuitCascade
    /\ Len(res.before) = 3
    /\ CountOp(res.log, "pop") = 3
    /\ pc = "done"

\* C2: a CreateChild returned by on_tick of the top scene grows the stack by one,
\* with the newly constructed scene on top.
C2_TickOutcomeResolved ==
    [][(pc = "tick" /\ pc' = "render" /\ Last(trace').out.kind = "CreateChild")
          => /\ Len(stack') = Len(stack) + 1
             /\ Last(stack').kind = Last(trace').out.create_scene]_vars

\* the only scene on the stack quit, the quit handler returns its input verbatim,
\* and run() has returned
QuitAlone ==
    /\ pc = "done"
    /\ res.outcome.kind = "Quit"
    /\ Len(res.before) = 1
    /\ handle_quit = "verbatim"

\* the string keys a props dictionary requests
RequestedKeys(props) ==
    IF HasRequests(props)
    THEN LET requests == props["_REQUESTS"][2]
         IN  {requests[i][2] : i \in {j \in 1..Len(requests) : requests[j][1] = "String"}}
    ELSE {}

\* C3 as stated: when the only scene quits with props P and the quit handler
\* returns its input verbatim, run() returns exactly P.
C3_ReturnsPropsVerbatim == QuitAlone => result = Some(res.outcome.props)

\* C3 as amended: run() returns P with `globals` set to the requested engine
\* globals (an empty mapping when P requests none) and with a `_REQUESTS` array
\* removed; every other entry of P is returned unchanged.
C3_ReturnsMergedProps ==
    QuitAlone =>
        LET P == res.outcome.props
            R == result[1]
            dropped == IF HasRequests(P) THEN {"_REQUESTS"} ELSE {}
        IN  /\ result # None
            /\ DOMAIN R = ((DOMAIN P) \ dropped) \cup {"globals"}
            /\ \A k \in (DOMAIN R) \ {"globals"} : R[k] = P[k]
            /\ R["globals"] = DictV(Restrict(globals, RequestedKeys(P)))

C3_Witness ==
    /\ QuitAlone
    /\ res.outcome.props = [k \in {"score"} |-> U32(10)]
    /\ result = Some([k \in {"score", "globals"} |->
                         IF k = "score" THEN U32(10) ELSE DictV(EmptyDict)])

\* C4: every render, event callback, tick and child-quit delivery goes to the
\* scene on top of the stack at the moment of the call.
C4_OnlyTopIsCalled ==
    /\ \A i \in 1..Len(trace) :
          trace[i].op \in {"render", "event", "tick"} => trace[i].target = trace[i].top
    /\ \A i \in 1..Len(res.log) :
          res.log[i].op = "on_child_quit" => res.log[i].target = res.log[i].top

\* the `_REQUESTS` entry is a sequence of string keys
StringRequests(props) ==
    /\ HasRequests(props)
    /\ \A i \in 1..Len(props["_REQUESTS"][2]) : props["_REQUESTS"][2][i][1] = "String"

\* C5: when `_REQUESTS` is a sequence of string keys, handle_props leaves in
\* props `globals` = the engine globals restricted to the requested keys that
\* exist, and no `_REQUESTS`.
C5_GlobalsAreRequested ==
    (hp.done /\ StringRequests(hp.props)) =>
        /\ "globals" \in DOMAIN hp.out
        /\ hp.out["globals"] = DictV(Restrict(hp.globals, RequestedKeys(hp.props)))
        /\ "_REQUESTS" \notin DOMAIN hp.out

C5_Witness ==
    /\ hp.done
    /\ hp.globals = AllGlobals
    /\ hp.props = [k \in {"_REQUESTS"} |-> Array(<<String("a"), String("b")>>)]
    /\ hp.out = [k \in {"globals"} |-> DictV(Restrict(AllGlobals, {"a", "b"}))]

\* C6 as stated: len() = pushes - pops, a replace on an empty stack counting as
\* a push and a replace on a non-empty stack as nothing.
C6_LenIsPushesMinusPops ==
    len(st.stack) = st.pushes + st.replacesEmpty - st.pops

\* C6 as amended: the same, counting only the pops applied to a non-empty stack
\* (a pop on an empty stack returns None and counts as nothing).
C6_LenIsPushesMinusEffectivePops ==
    len(st.stack) = st.pushes + st.replacesEmpty - st.popsSome

C6_Witness ==
    /\ st.pops > st.popsSome
    /\ st.popsSome > 0
    /\ st.replacesEmpty > 0
    /\ st.pushes > 0

\* C7: replace(x) on a non-empty stack keeps len(), returns the evicted top,
\* leaves the elements below the top alone and makes x the top; on an empty
\* stack it does what push(x) does and returns None.
C7_Replace ==
    st.last.op = "replace" =>
        LET b == st.last.before
            s == st.stack
            x == st.last.arg
        IN  IF b # <<>>
            THEN /\ len(s) = len(b)
                 /\ st.last.out = Some(Last(b))
                 /\ SubSeq(s, 1, Len(s) - 1) = SubSeq(b, 1, Len(b) - 1)
                 /\ Last(s) = x
            ELSE /\ s = push(b, x)
                 /\ len(s) = 1
                 /\ st.last.out = None

C7_Witness ==
    /\ st.last.op = "replace"
    /\ Len(st.last.before) >= 2
    /\ Last(st.last.before) # st.last.arg
    /\ st.last.before[1] # st.last.before[2]

\* C8: an event whose type has no callback on the current top scene changes
\* neither the stack nor the globals, resolves no outcome and does not end run().
C8_UnregisteredEventDropped ==
    [][(pc = "poll" /\ polled' = polled + 1
           /\ event'.type \notin event_callbacks(Last(stack)))
          => /\ stack' = stack
             /\ globals' = globals
             /\ res' = res
             /\ pc' = "poll"
             /\ result' = result]_vars

Rank(op) ==
    CASE op = "render" -> 1
      [] op = "event" -> 2
      [] op = "sleep" -> 3
      [] op = "tick" -> 4

\* within a frame: render, then the events, then sleep, then tick
FrameOrdered ==
    /\ \A i, j \in 1..Len(trace) : i < j => Rank(trace[i].op) <= Rank(trace[j].op)
    /\ CountOp(trace, "render") <= 1
    /\ CountOp(trace, "sleep") <= 1
    /\ CountOp(trace, "tick") <= 1

\* a frame ran to its end, and the next has not started
FrameCompleted == pc = "render" /\ trace # <<>>

\* a frame that rendered a scene has ended: it ran to its end or run() returned in it
FrameEnded == FrameCompleted \/ (pc = "done" /\ trace # <<>>)

TickedOnceOnTop ==
    /\ CountOp(trace, "render") = 1
    /\ CountOp(trace, "sleep") = 1
    /\ CountOp(trace, "tick") = 1
    /\ Last(trace).op = "tick"
    /\ Last(trace).target = Last(trace).top
    /\ Last(trace).target = TopId(stack)

\* C9 as stated: in every frame on_tick is invoked exactly once, on the top
\* scene, after the frame's render, events and sleep.
C9_TickOncePerFrame ==
    /\ FrameOrdered
    /\ FrameEnded => TickedOnceOnTop

\* C9 as amended: the same for every frame run() does not return in; in the frame
\* in which run() returns on_tick is not invoked.
C9_TickOncePerCompletedFrame ==
    /\ FrameOrdered
    /\ FrameCompleted => TickedOnceOnTop
    /\ pc = "done" => CountOp(trace, "tick") = 0

C9_Witness ==
    /\ FrameCompleted
    /\ CountOp(trace, "event") = 2
    /\ Len(stack) >= 2
    /\ Last(trace).out.kind = "Quit"

\* C10: run() returns only with an empty stack, and has not returned while a
\* scene is on the stack.
C10_ReturnsOnlyWhenEmpty ==
    /\ pc = "done" <=> result # None
    /\ pc = "done" => stack = <<>>

C10_Witness ==
    /\ pc = "done"
    /\ quits = 1
    /\ Len(res.before) >= 2
    /\ stack = <<>>

\* C11: when run() returns without the quit handler having been invoked (the
\* stack was found empty at the dispatch or tick step), it returns an empty
\* dictionary; it returns the quit handler's result only when a Quit outcome
\* emptied the stack, with the handler invoked by that resolution.
C11_UnderflowReturnsEmpty ==
    pc = "done" =>
        /\ quits <= 1
        /\ quits = 0 => (result = Some(EmptyDict) /\ res.ret = None)
        /\ quits = 1 =>
              /\ result = res.ret
              /\ result # None
              /\ res.after = <<>>
              /\ CountOp(res.log, "pop") >= 1
              /\ CountOp(res.log, "handle_quit") = 1
              /\ Last(res.log).op = "handle_quit"

C11_Witness ==
    /\ pc = "done"
    /\ quits = 0
    /\ stack = <<>>
    /\ result = Some(EmptyDict)

\* the calls of the last resolution that hand a props dictionary across a scene
\* boundary: to a scene constructor, to a parent's on_child_quit, to the quit handler
Deliveries ==
    {i \in 1..Len(res.log) : res.log[i].op \in {"create_scene", "on_child_quit", "handle_quit"}}

\* C12 as stated: every props dictionary delivered across a scene boundary
\* contains `globals` and does not contain `_REQUESTS`.
C12_DeliveredPropsMerged ==
    \A i \in Deliveries :
        /\ "globals" \in DOMAIN res.log[i].props
        /\ "_REQUESTS" \notin DOMAIN res.log[i].props

\* C12 as amended: every delivered props dictionary contains `globals` and no
\* `_REQUESTS` entry that is a sequence; a `_REQUESTS` entry that is not a
\* sequence is delivered as the scene supplied it.
C12_DeliveredPropsMergedArrays ==
    \A i \in Deliveries :
        LET p == res.log[i].props
        IN  /\ "globals" \in DOMAIN p
            /\ p["globals"][1] = "Dict"
            /\ ~HasRequests(p)
            /\ ("_REQUESTS" \in DOMAIN p) => (p["_REQUESTS"] = res.outcome.props["_REQUESTS"])

C12_Witness ==
    /\ res.outcome.kind = "CreateChild"
    /\ res.outcome.props = [k \in {"_REQUESTS"} |-> Array(<<String("a"), String("z")>>)]
    /\ \E i \in Deliveries :
          /\ res.log[i].op = "create_scene"
          /\ res.log[i].props = [k \in {"globals"} |-> DictV(Restrict(AllGlobals, {"a"}))]

\* the last outcome run() resolved was a Quit, resolved on a stack of depth >= 2
QuitWithParent == res.outcome.kind = "Quit" /\ Len(res.before) >= 2

\* C13: Quit(props) on a stack of depth N >= 2 pops exactly the top scene, then
\* calls on_child_quit exactly once on the scene below it (the new top) with the
\* child's props, and resolves the outcome returned; when that outcome is
\* Continue the stack is the N-1 remaining scenes in order, the quit handler
\* is not invoked and run() goes on.
C13_QuitWithParent ==
    QuitWithParent =>
        LET N == Len(res.before)
            child == res.before[N]
            parent == res.before[N - 1]
            rest == SubSeq(res.before, 1, N - 1)
            log == res.log
            P == res.outcome.props
        IN  /\ Len(log) >= 2
            /\ log[1].op = "pop" /\ log[1].target = child.id
            /\ log[2].op = "on_child_quit"
            /\ log[2].target = parent.id /\ log[2].top = parent.id
            /\ Cardinality({i \in 1..Len(log) : log[i].op = "on_child_quit"
                                                   /\ log[i].target = parent.id}) = 1
            /\ \A k \in (DOMAIN P) \ {"globals", "_REQUESTS"} :
                  k \in DOMAIN log[2].props /\ log[2].props[k] = P[k]
            /\ log[2].out.kind = "Continue" =>
                  /\ res.after = rest
                  /\ stack = rest
                  /\ Len(log) = 2
                  /\ res.ret = None /\ result = None /\ quits = 0
                  /\ pc = "poll"
            /\ log[2].out.kind = "CreateChild" =>
                  /\ Len(res.after) = N
                  /\ SubSeq(res.after, 1, N - 1) = rest
                  /\ Last(res.after).kind = log[2].out.create_scene
                  /\ res.ret = None
            /\ log[2].out.kind = "Quit" =>
                  /\ CountOp(log, "pop") >= 2
                  /\ log[3].op = "pop" /\ log[3].target = parent.id
                  /\ \A i \in 1..Len(res.after) : res.after[i].id # parent.id

C13_Witness ==
    /\ QuitWithParent
    /\ Len(res.before) = 3
    /\ res.log[2].out.kind = "Continue"
    /\ res.outcome.props = [k \in {"score"} |-> U32(10)]
    /\ Len(stack) = 2
    /\ pc = "poll"

\* the outcome run() resolved last, and that the loop went on after it
ResolvedAndRunning ==
    /\ res.ret = None
    /\ result = None
    /\ quits = 0
    /\ CountOp(res.log, "handle_quit") = 0
    /\ pc = "poll"

\* C14: resolving CreateChild grows the stack by exactly one, the scenes that
\* were live staying in place and in order below the new one; resolving Replace
\* keeps the depth and changes only the top slot; neither invokes the quit
\* handler nor ends run().
C14_CreateChildAndReplace ==
    LET N == Len(res.before)
    IN  /\ res.outcome.kind = "CreateChild" =>
              /\ Len(res.after) = N + 1
              /\ SubSeq(res.after, 1, N) = res.before
              /\ Last(res.after).kind = res.outcome.create_scene
              /\ Last(res.after).id \notin Ids(res.before)
              /\ stack = res.after
              /\ ResolvedAndRunning
        /\ res.outcome.kind = "Replace" =>
              /\ N >= 1
              /\ Len(res.after) = N
              /\ SubSeq(res.after, 1, N - 1) = SubSeq(res.before, 1, N - 1)
              /\ Last(res.after).kind = res.outcome.create_scene
              /\ Last(res.after).id \notin Ids(res.before)
              /\ stack = res.after
              /\ ResolvedAndRunning

C14_Witness ==
    /\ res.outcome.kind = "Replace"
    /\ Len(res.before) = 2
    /\ Len(stack) = 2
    /\ stack[1] = res.before[1]
    /\ Last(stack).kind # Last(res.before).kind

\* the props of the Quit outcome that emptied the stack: the outcome run() passed
\* in, or the Quit the last parent's on_child_quit returned
LastQuitProps ==
    IF CountOp(res.log, "on_child_quit") = 0
    THEN res.outcome.props
    ELSE res.log[Len(res.log) - 2].out.props

\* the quit handler has been invoked: by a Quit resolved with no parent left, on
\* the quitting scene's props, and run() has returned what the handler returned
HandlerEndedRun ==
    /\ pc = "done"
    /\ stack = <<>>
    /\ Len(res.log) >= 2
    /\ Last(res.log).op = "handle_quit"
    /\ res.log[Len(res.log) - 1].op = "pop"
    /\ \A k \in (DOMAIN LastQuitProps) \ {"globals", "_REQUESTS"} :
          k \in DOMAIN Last(res.log).props /\ Last(res.log).props[k] = LastQuitProps[k]
    /\ result = Some(CallHandleQuit(handle_quit, Last(res.log).props))
    /\ Last(trace).op = "event"

\* C15: the quit handler is invoked at most once per run, by a Quit resolved with
\* no parent left and on that Quit's props; run() then returns the handler's
\* result, and nothing is rendered, dispatched, ticked or delivered afterwards.
C15_QuitHandlerEndsRun ==
    /\ [](quits <= 1 /\ (quits = 1 => HandlerEndedRun))
    /\ [][quits = 0]_engineVars

C15_Witness ==
    /\ quits = 1
    /\ HandlerEndedRun
    /\ polled < MaxEvents
    /\ CountOp(res.log, "on_child_quit") = 1
    /\ handle_quit = "verbatim"

\* the nested calls handle_scene_fn_outcome made of itself in the last resolution
RecursiveCalls == res.depth - 1

\* C16: a resolution returns after at most as many recursive calls as the stack
\* was deep at entry; every recursive call follows exactly one pop and one
\* on_child_quit; CreateChild, Replace and Continue do not recurse.
C16_ResolutionBounded ==
    res.outcome.kind # "none" =>
        /\ RecursiveCalls >= 0
        /\ RecursiveCalls <= Len(res.before)
        /\ RecursiveCalls = CountOp(res.log, "on_child_quit")
        /\ CountOp(res.log, "pop")
              = CountOp(res.log, "on_child_quit") + CountOp(res.log, "handle_quit")
        /\ \A i \in 1..Len(res.log) :
              /\ res.log[i].op = "on_child_quit" => (i > 1 /\ res.log[i - 1].op = "pop")
              /\ res.log[i].op \in {"create_scene", "handle_quit"} => i = Len(res.log)
        /\ res.outcome.kind \in {"CreateChild", "Replace", "Continue"} =>
              (RecursiveCalls = 0 /\ CountOp(res.log, "pop") = 0)

C16_Witness ==
    /\ res.outcome.kind = "Quit"
    /\ Len(res.before) = 3
    /\ RecursiveCalls = 2
    /\ Last(res.log).op = "on_child_quit"
    /\ Last(res.log).out.kind = "Continue"
    /\ Len(res.after) = 1

\* run() started with an empty stack: no scene was ever given an identity
StartedEmpty == nextId = 1

\* C17: a stack that is non-empty when run() starts is non-empty at every later
\* step until a Quit with no parent invokes the quit handler; so the empty-stack
\* break at the tick step is never taken, and the one at the dispatch step only
\* in the first frame, of a run that started with an empty stack.
C17_NonEmptyUntilQuit ==
    /\ stack = <<>> => (quits = 1 \/ StartedEmpty)
    /\ pc \in {"poll", "sleep", "tick"} => stack # <<>>
    /\ (pc = "done" /\ quits = 0) => (StartedEmpty /\ trace = <<>> /\ res = NoRes)
    /\ StartedEmpty => pc \in {"render", "peek", "done"}

C17_Witness ==
    /\ pc = "tick"
    /\ nextId = 3
    /\ Len(stack) = 1
    /\ stack[1].id = 1
    /\ CountOp(trace, "event") = 2
    /\ quits = 0

\* C18: handle_props leaves the engine globals as they were, and leaves every
\* key of props other than `_REQUESTS` and `globals` with its value; it adds no
\* key but `globals`.
C18_OnlyGlobalsAndRequestsChange ==
    [][(~hp.done /\ hp'.done) =>
          /\ hp'.globals = hp.globals
          /\ \A k \in (DOMAIN hp.props) \ {"_REQUESTS", "globals"} :
                k \in DOMAIN hp'.out /\ hp'.out[k] = hp.props[k]
          /\ (DOMAIN hp'.out) \ {"globals"} \subseteq DOMAIN hp.props]_vars

C18_Witness ==
    /\ hp.done
    /\ hp.globals = AllGlobals
    /\ DOMAIN hp.props = {"score", "globals", "_REQUESTS"}
    /\ hp.props["_REQUESTS"] = Array(<<String("c"), String("a")>>)
    /\ DOMAIN hp.out = {"score", "globals"}
    /\ hp.out["score"] = U32(10)

\* C19: handle_props always sets `globals` to a mapping.  Without a `_REQUESTS`
\* array the mapping is empty, whatever `globals` entry props came with; with
\* one, the mapping holds exactly the string entries of `_REQUESTS` that are
\* keys of the engine globals, each with the engine's value: entries that are
\* not strings and keys the engine does not have leave no entry behind.
C19_GlobalsSetUnconditionally ==
    hp.done =>
        /\ "globals" \in DOMAIN hp.out
        /\ hp.out["globals"][1] = "Dict"
        /\ ~HasRequests(hp.props) => hp.out["globals"] = DictV(EmptyDict)
        /\ HasRequests(hp.props) =>
              LET copied == hp.out["globals"][2]
              IN  /\ DOMAIN copied = RequestedKeys(hp.props) \cap DOMAIN hp.globals
                  /\ \A k \in DOMAIN copied : copied[k] = hp.globals[k]

C19_Witness ==
    /\ hp.done
    /\ hp.globals = AllGlobals
    /\ DOMAIN hp.props = {"globals", "_REQUESTS"}
    /\ hp.props["globals"] = String("mine")
    /\ hp.props["_REQUESTS"] = U32(1)
    /\ hp.out["globals"] = DictV(EmptyDict)
    /\ hp.out["_REQUESTS"] = U32(1)

\* a requests array with an entry that is not a string and a key the engine
\* globals do not have yields an empty mapping
C19_SkippedRequests ==
    /\ hp.done
    /\ hp.globals = AllGlobals
    /\ "_REQUESTS" \in DOMAIN hp.props
    /\ hp.props["_REQUESTS"] = Array(<<U32(7), String("z")>>)
    /\ hp.out["globals"] = DictV(EmptyDict)

\* C20: Stack is LIFO.  push puts its argument on top of what was there; pop on
\* a non-empty stack returns the top, removes it alone and decreases len() by
\* one; pop on an empty stack returns None and leaves it empty; peek returns
\* what pop would return and leaves the stack as it was; empty() is true
\* exactly when len() is 0.
C20_StackIsLIFO ==
    LET b == st.last.before
        s == st.stack
    IN  /\ empty(s) <=> len(s) = 0
        /\ peek(s) = pop(s).out
        /\ st.last.op = "push" => s = b \o <<st.last.arg>>
        /\ st.last.op = "pop" =>
              IF b # <<>>
              THEN /\ st.last.out = Some(Last(b))
                   /\ s = SubSeq(b, 1, Len(b) - 1)
                   /\ len(s) = len(b) - 1
              ELSE /\ st.last.out = None
                   /\ empty(s)
        /\ st.last.op = "peek" =>
              /\ s = b
              /\ st.last.out = IF b = <<>> THEN None ELSE Some(Last(b))

C20_Witness ==
    /\ st.last.op = "pop"
    /\ Len(st.last.before) >= 2
    /\ st.last.before[1] # Last(st.last.before)
    /\ st.last.out = Some(Last(st.last.before))
    /\ st.pushes >= 2

\* a pop on an empty stack, then a peek on a stack of two
C20_PopOnEmpty ==
    /\ st.last.op = "pop"
    /\ st.last.before = <<>>
    /\ st.pushes > 0

C20_PeekOnTwo ==
    /\ st.last.op = "peek"
    /\ Len(st.stack) = 2
    /\ st.stack[1] # st.stack[2]

=============================================================================
